---- MODULE Spec2Model ----
(***************************************************************************)
(* Model of the Verizon plan agent (src/plan_agent.py) and of its a2a      *)
(* executor (src/a2a_plan_agent.py).                                       *)
(*                                                                         *)
(* Python strings that the code takes apart (headings, price texts,        *)
(* features, user input, JSON literals) are sequences of one-character     *)
(* strings; fixed messages that the code only passes along are TLA+        *)
(* strings.  A Python float is a decimal [t, neg, m, e] standing for       *)
(* (-1)^neg * m / 10^e in lowest form, which is what float() and repr()    *)
(* agree on for the short numerals used here.                              *)
(***************************************************************************)
EXTENDS Integers, Sequences, FiniteSets, TLC

VARIABLES
    plans,          \* VerizonPlanAgent.plans, the in-memory catalog
    page,           \* what the provider's page and the browser will do
    file,           \* verizon_plans.json beside plan_agent.py
    _plans_loaded,  \* VerizonPlanAgentExecutor._plans_loaded
    queue,          \* number of events waiting on the EventQueue
    life,           \* history of the agent's lifetime (first store, scrapes)
    tasks,          \* the execute coroutines of the event loop, by request
    last            \* summary of the most recent call: inputs, result, log

vars == <<plans, page, file, _plans_loaded, queue, life, tasks, last>>

\* ---------------------------------------------------------------- bounds
MaxCards == 2       \* cards on a page in SpecScrape
MaxPlans == 2       \* plans of a catalog in SpecStore
MaxScrapes == 2     \* scrapes get_recommendation starts in one lifetime
MaxQueue == 2       \* events waiting on the event queue
MaxTasks == 2       \* requests in one executor process in SpecRace

\* ------------------------------------------------------- Python str helpers
IsSpace(c) == c \in {" ", "\t", "\n"}

Digits == {"0", "1", "2", "3", "4", "5", "6", "7", "8", "9"}

DigitVal(c) ==
    CASE c = "0" -> 0 [] c = "1" -> 1 [] c = "2" -> 2 [] c = "3" -> 3
      [] c = "4" -> 4 [] c = "5" -> 5 [] c = "6" -> 6 [] c = "7" -> 7
      [] c = "8" -> 8 [] c = "9" -> 9

DigitChar(d) ==
    CASE d = 0 -> "0" [] d = 1 -> "1" [] d = 2 -> "2" [] d = 3 -> "3"
      [] d = 4 -> "4" [] d = 5 -> "5" [] d = 6 -> "6" [] d = 7 -> "7"
      [] d = 8 -> "8" [] d = 9 -> "9"

RECURSIVE lstrip(_)
lstrip(s) == IF s # <<>> /\ IsSpace(Head(s)) THEN lstrip(Tail(s)) ELSE s

RECURSIVE rstrip(_)
rstrip(s) ==
    IF s # <<>> /\ IsSpace(s[Len(s)]) THEN rstrip(SubSeq(s, 1, Len(s) - 1)) ELSE s

\* str.strip()
strip(s) == rstrip(lstrip(s))

\* str.split() with no separator: the maximal runs of non-whitespace
RECURSIVE splitAcc(_, _, _)
splitAcc(s, word, acc) ==
    IF s = <<>>
    THEN IF word = <<>> THEN acc ELSE Append(acc, word)
    ELSE IF IsSpace(Head(s))
         THEN splitAcc(Tail(s), <<>>, IF word = <<>> THEN acc ELSE Append(acc, word))
         ELSE splitAcc(Tail(s), Append(word, Head(s)), acc)

split(s) == splitAcc(s, <<>>, <<>>)

\* sep.join(words)
RECURSIVE join(_, _)
join(sep, words) ==
    IF words = <<>> THEN <<>>
    ELSE IF Len(words) = 1 THEN words[1]
    ELSE words[1] \o sep \o join(sep, Tail(words))

StartsWith(s, p) == Len(s) >= Len(p) /\ SubSeq(s, 1, Len(p)) = p

\* str.replace(old, new) for a non-empty old: leftmost, non-overlapping
RECURSIVE replace(_, _, _)
replace(s, old, new) ==
    IF s = <<>> THEN <<>>
    ELSE IF StartsWith(s, old)
         THEN new \o replace(SubSeq(s, Len(old) + 1, Len(s)), old, new)
         ELSE <<Head(s)>> \o replace(Tail(s), old, new)

\* ------------------------------------------------------------ Python numbers
IntZero == [t |-> "int", neg |-> FALSE, m |-> 0, e |-> 0]

RECURSIVE Pow10(_)
Pow10(n) == IF n = 0 THEN 1 ELSE 10 * Pow10(n - 1)

\* lowest form of m / 10^e
RECURSIVE Normal(_, _)
Normal(m, e) == IF e > 0 /\ m % 10 = 0 THEN Normal(m \div 10, e - 1) ELSE [m |-> m, e |-> e]

RECURSIVE DigitsVal(_, _)
DigitsVal(s, acc) == IF s = <<>> THEN acc ELSE DigitsVal(Tail(s), 10 * acc + DigitVal(Head(s)))

AllDigits(s) == \A i \in 1..Len(s) : s[i] \in Digits

\* decimal digits of a natural number
RECURSIVE NatText(_)
NatText(n) == IF n < 10 THEN <<DigitChar(n)>> ELSE Append(NatText(n \div 10), DigitChar(n % 10))

\* n as exactly w digits (leading zeros)
RECURSIVE PadText(_, _)
PadText(n, w) == IF w = 0 THEN <<>> ELSE Append(PadText(n \div 10, w - 1), DigitChar(n % 10))

DotPos(s) ==
    IF \E i \in 1..Len(s) : s[i] = "."
    THEN CHOOSE i \in 1..Len(s) : s[i] = "." /\ \A j \in 1..(i - 1) : s[j] # "."
    ELSE 0

\* float(text): optional surrounding whitespace, optional sign, digits with
\* an optional point; anything else raises ValueError (ok = FALSE)
float(text) ==
    LET s    == strip(text)
        sgn  == s # <<>> /\ Head(s) \in {"+", "-"}
        neg  == s # <<>> /\ Head(s) = "-"
        body == IF sgn THEN Tail(s) ELSE s
        d    == DotPos(body)
        ip   == IF d = 0 THEN body ELSE SubSeq(body, 1, d - 1)
        fp   == IF d = 0 THEN <<>> ELSE SubSeq(body, d + 1, Len(body))
        good == AllDigits(ip) /\ AllDigits(fp) /\ Len(ip) + Len(fp) > 0
        n    == Normal(DigitsVal(ip \o fp, 0), Len(fp))
    IN  IF good
        THEN [ok |-> TRUE, v |-> [t |-> "float", neg |-> neg, m |-> n.m, e |-> n.e]]
        ELSE [ok |-> FALSE, v |-> IntZero]

\* repr(x) / str(x) of an int or of a float
NumText(x) ==
    LET sign == IF x.neg THEN <<"-">> ELSE <<>>
        p    == Pow10(x.e)
    IN  IF x.t = "int" THEN sign \o NatText(x.m)
        ELSE sign \o NatText(x.m \div p) \o <<".">> \o
             (IF x.e = 0 THEN <<"0">> ELSE PadText(x.m % p, x.e))

\* --------------------------------------------------------- Catalog Scraper
UnknownPlan == <<"U", "n", "k", "n", "o", "w", "n", " ", "P", "l", "a", "n">>

\* An element read of a card: ok = FALSE when inner_text / all_inner_texts
\* raises (element missing, timeout), else v is the text read.
Read(v) == [ok |-> TRUE, v |-> v]
NoRead  == [ok |-> FALSE, v |-> <<>>]

\* name: the h3 text, whitespace-normalised; "Unknown Plan" when the read
\* raises or the text is the empty string
card_name(h3) ==
    IF ~h3.ok THEN UnknownPlan
    ELSE IF h3.v # <<>> THEN strip(join(<<" ">>, split(h3.v)))
    ELSE UnknownPlan

\* price: float of the text without '$' and '/mo'; 0 when anything raises
card_price(el) ==
    IF ~el.ok THEN IntZero
    ELSE LET txt == strip(replace(replace(el.v, <<"$">>, <<>>), <<"/", "m", "o">>, <<>>))
             f   == float(txt)
         IN  IF f.ok THEN f.v ELSE IntZero

\* features: every feature title, stripped; [] when the read raises
card_features(els) ==
    IF ~els.ok THEN <<>>
    ELSE [i \in 1..Len(els.v) |-> strip(els.v[i])]

\* card_plan with one handler around the three reads
card_plan_OneTry(card) ==
    IF card.h3.ok /\ card.price.ok /\ card.feat.ok /\
       float(strip(replace(replace(card.price.v, <<"$">>, <<>>), <<"/", "m", "o">>, <<>>))).ok
    THEN [name     |-> card_name(card.h3),
          price    |-> card_price(card.price),
          features |-> card_features(card.feat)]
    ELSE [name |-> UnknownPlan, price |-> IntZero, features |-> <<>>]

\* the plan appended for one card
card_plan(card) ==
    [name     |-> card_name(card.h3),
     price    |-> card_price(card.price),
     features |-> card_features(card.feat)]

\* for i in range(count): ... plans.append(...)
RECURSIVE scrape_loop(_)
scrape_loop(cards) ==
    IF cards = <<>> THEN <<>>
    ELSE <<card_plan(Head(cards))>> \o scrape_loop(Tail(cards))

\* playwright_block with `self.plans = []` in the except branch
playwright_block_ClearsOnFailure(pg, pl) ==
    IF pg.stage = "launch"
    THEN [raised |-> TRUE, result |-> <<>>, plans |-> pl, browser |-> "none"]
    ELSE IF pg.stage = "new_page"
    THEN [raised |-> TRUE, result |-> <<>>, plans |-> pl, browser |-> "open"]
    ELSE LET got == IF pg.stage \in {"goto", "count"} THEN <<>> ELSE scrape_loop(pg.cards)
         IN  IF pg.closeOk
             THEN [raised |-> FALSE, result |-> got, plans |-> got, browser |-> "closed"]
             ELSE [raised |-> TRUE, result |-> <<>>, plans |-> got, browser |-> "open"]

\* the body of the `async with async_playwright() as p:` block, with pl the
\* value of self.plans at entry.
\* page.stage names the first call that raises ("none": no call raises);
\* page.closeOk tells whether browser.close() in the finally returns.
\* browser, when the block is left: "none" (never launched), "closed", or
\* "open" (close not reached or close raised).
playwright_block(pg, pl) ==
    IF pg.stage = "launch"
    THEN [raised |-> TRUE, result |-> <<>>, plans |-> pl, browser |-> "none"]
    ELSE IF pg.stage = "new_page"
    THEN [raised |-> TRUE, result |-> <<>>, plans |-> pl, browser |-> "open"]
    ELSE LET got == IF pg.stage \in {"goto", "count"} THEN <<>> ELSE scrape_loop(pg.cards)
             new == IF pg.stage \in {"goto", "count"} THEN pl ELSE got
         IN  IF pg.closeOk
             THEN [raised |-> FALSE, result |-> got, plans |-> new, browser |-> "closed"]
             ELSE [raised |-> TRUE, result |-> <<>>, plans |-> new, browser |-> "open"]

\* async_playwright started without the context manager and never stopped
async_playwright_exit_Skipped(r) == r

\* leaving the `async with async_playwright()` block, by return or by
\* exception: the playwright driver is stopped, which ends a browser it
\* launched that is still open ("stopped")
async_playwright_exit(r) ==
    [r EXCEPT !.browser = IF @ = "open" THEN "stopped" ELSE @]

\* scrape_plans on a page, with pl the value of self.plans at entry
scrape_plans(pg, pl) == async_playwright_exit(playwright_block(pg, pl))

\* ------------------------------------------------------------ Catalog Store
\* json.dump of a str: quotes around the text, with '"', '\', newline and
\* tab escaped
RECURSIVE json_escape(_)
json_escape(s) ==
    IF s = <<>> THEN <<>>
    ELSE LET c == Head(s)
         IN (CASE c = "\"" -> <<"\\", "\"">>
               [] c = "\\" -> <<"\\", "\\">>
               [] c = "\n" -> <<"\\", "n">>
               [] c = "\t" -> <<"\\", "t">>
               [] OTHER    -> <<c>>) \o json_escape(Tail(s))

json_string(s) == <<"\"">> \o json_escape(s) \o <<"\"">>

\* json.load of a string literal
RECURSIVE json_unescape(_)
json_unescape(s) ==
    IF s = <<>> THEN <<>>
    ELSE IF Head(s) = "\\" /\ Len(s) >= 2
         THEN LET c == s[2]
              IN <<(CASE c = "n" -> "\n" [] c = "t" -> "\t" [] OTHER -> c)>>
                 \o json_unescape(SubSeq(s, 3, Len(s)))
         ELSE <<Head(s)>> \o json_unescape(Tail(s))

json_unstring(lit) == json_unescape(SubSeq(lit, 2, Len(lit) - 1))

\* json_number writing the whole part only
json_number_Whole(x) == NumText([x EXCEPT !.t = "int", !.m = x.m \div Pow10(x.e), !.e = 0])

\* json.dump of an int or a float: its repr
json_number(x) == NumText(x)

\* json.load of a number literal: a float when it has a fraction part,
\* else an int
json_unnumber(lit) ==
    IF DotPos(lit) # 0 THEN float(lit).v
    ELSE LET neg  == lit # <<>> /\ Head(lit) = "-"
             body == IF neg THEN Tail(lit) ELSE lit
         IN  [t |-> "int", neg |-> neg, m |-> DigitsVal(body, 0), e |-> 0]

json_plan(p) ==
    [name     |-> json_string(p.name),
     price    |-> json_number(p.price),
     features |-> [i \in 1..Len(p.features) |-> json_string(p.features[i])]]

json_unplan(j) ==
    [name     |-> json_unstring(j.name),
     price    |-> json_unnumber(j.price),
     features |-> [i \in 1..Len(j.features) |-> json_unstring(j.features[i])]]

json_plans(pl) == [i \in 1..Len(pl) |-> json_plan(pl[i])]

json_unplans(js) == [i \in 1..Len(js) |-> json_unplan(js[i])]

\* The store file: absent, corrupt (unreadable, or not the text of a JSON
\* object), or the text of a JSON object with the keys named in keys.
Absent  == [kind |-> "absent",  keys |-> {}, total_plans |-> <<>>, plans |-> <<>>]
Corrupt == [kind |-> "corrupt", keys |-> {}, total_plans |-> <<>>, plans |-> <<>>]

\* the object save_plans dumps for the catalog pl
Document(pl) ==
    [kind        |-> "object",
     keys        |-> {"extracted_at", "total_plans", "plans"},
     total_plans |-> json_number([t |-> "int", neg |-> FALSE, m |-> Len(pl), e |-> 0]),
     plans       |-> json_plans(pl)]

\* an object written by something else, without the plans key
NoPlansKey ==
    [kind |-> "object", keys |-> {"extracted_at"}, total_plans |-> <<>>, plans |-> <<>>]

SaveOutcomes == {"ok", "open_fails", "write_fails"}

\* save_plans: the file afterwards.  open(.., 'w') raising leaves the file
\* as it was; a write raising after the open leaves a truncated file.
save_plans(pl, out, f) ==
    [raised |-> FALSE,
     file   |-> CASE out = "ok"          -> Document(pl)
                  [] out = "open_fails"  -> f
                  [] out = "write_fails" -> Corrupt]

\* load_plans reading data["plans"] instead of data.get("plans", [])
load_plans_KeyError(f, pl) ==
    IF f.kind = "object" /\ "plans" \in f.keys
    THEN [raised |-> FALSE, ret |-> TRUE, plans |-> json_unplans(f.plans)]
    ELSE [raised |-> FALSE, ret |-> FALSE, plans |-> pl]

\* load_plans: the return value and self.plans afterwards
load_plans(f, pl) ==
    IF f.kind = "object"
    THEN [raised |-> FALSE, ret |-> TRUE,
          plans  |-> IF "plans" \in f.keys THEN json_unplans(f.plans) ELSE <<>>]
    ELSE [raised |-> FALSE, ret |-> FALSE, plans |-> pl]

\* ------------------------------------------------------------- Plan Agent
NoPlansMsg == "No plans available. Could not retrieve any plan data."
ApologyMsg == "Sorry, I couldn't process your request. Please try again."
Generated  == "response.choices[0].message.content"

\* what the text-generation call does: returns a completion, raises, or
\* returns a response whose choices list is empty
LlmOutcomes == {"ok", "raises", "empty_choices"}

\* one entry of the log of a call: the step, the catalog it worked on,
\* whether it succeeded, and how it ended
Ev(e, cat, ok, how) == [e |-> e, cat |-> cat, ok |-> ok, how |-> how]

\* `not self.plans`
Falsy(pl) == pl = <<>>

\* after_scrape with a save_plans that lets the error of open or of the
\* write through
after_scrape_SaveRaises(sc, l1, f, pg, out) ==
    IF sc.raised \/ out # "ok"
    THEN [raised |-> TRUE, exc |-> IF sc.raised THEN "PlaywrightError" ELSE "OSError",
          plans |-> sc.plans, file |-> save_plans(sc.plans, out, f).file, scrapes |-> 1,
          log |-> IF sc.raised
                  THEN Append(l1, Ev("scrape", sc.result, FALSE, pg.stage))
                  ELSE l1 \o <<Ev("scrape", sc.result, TRUE, pg.stage),
                               Ev("save", sc.plans, FALSE, out)>>]
    ELSE [raised |-> FALSE, exc |-> "", plans |-> sc.plans,
          file |-> save_plans(sc.plans, out, f).file, scrapes |-> 1,
          log |-> l1 \o <<Ev("scrape", sc.result, TRUE, pg.stage),
                          Ev("save", sc.plans, TRUE, out)>>]

\* load_or_scrape once scrape_plans has ended as sc: the save, or the raise
after_scrape(sc, l1, f, pg, out) ==
    IF sc.raised
    THEN [raised |-> TRUE, exc |-> "PlaywrightError", plans |-> sc.plans, file |-> f,
          scrapes |-> 1,
          log |-> Append(l1, Ev("scrape", sc.result, FALSE, pg.stage))]
    ELSE [raised |-> FALSE, exc |-> "", plans |-> sc.plans,
          file |-> save_plans(sc.plans, out, f).file, scrapes |-> 1,
          log |-> l1 \o <<Ev("scrape", sc.result, TRUE, pg.stage),
                          Ev("save", sc.plans, out = "ok", out)>>]

\* load_or_scrape once load_plans has returned ld
after_load(ld, f, inLoop, pg, out) ==
    IF ~ld.ret /\ Falsy(ld.plans)
    THEN IF inLoop
         THEN [raised |-> TRUE, exc |-> "RuntimeError", plans |-> ld.plans, file |-> f,
               scrapes |-> 0,
               log |-> <<Ev("load", ld.plans, ld.ret, f.kind),
                         Ev("asyncio.run", <<>>, FALSE, "running event loop")>>]
         ELSE after_scrape(scrape_plans(pg, ld.plans),
                           <<Ev("load", ld.plans, ld.ret, f.kind)>>, f, pg, out)
    ELSE [raised |-> FALSE, exc |-> "", plans |-> ld.plans, file |-> f,
          scrapes |-> 0, log |-> <<Ev("load", ld.plans, ld.ret, f.kind)>>]

\* get_recommendation, the load-or-scrape step.  inLoop: the caller runs
\* inside an asyncio event loop, where asyncio.run raises RuntimeError
\* without running the coroutine.
load_or_scrape(f, pl, inLoop, pg, out) ==
    after_load(load_plans(f, pl), f, inLoop, pg, out)

\* groq_call with the choices[0] read outside the try
groq_call_Unguarded(llm) ==
    IF llm = "ok" THEN [raised |-> FALSE, ret |-> Generated]
    ELSE IF llm = "raises" THEN [raised |-> FALSE, ret |-> ApologyMsg]
    ELSE [raised |-> TRUE, ret |-> ""]

\* get_recommendation, the text-generation call inside its try
groq_call(llm) ==
    IF llm = "ok" THEN [raised |-> FALSE, ret |-> Generated]
    ELSE [raised |-> FALSE, ret |-> ApologyMsg]

\* recommend once the text-generation call has ended as g
replied(g, pl, llm) ==
    [raised |-> g.raised, ret |-> g.ret,
     log |-> <<Ev("check", pl, TRUE, "non-empty"), Ev("llm", pl, llm = "ok", llm)>>]

\* recommend without the empty-catalog test
recommend_NoEmptyTest(u, pl, llm) == replied(groq_call(llm), pl, llm)

\* get_recommendation from the empty-catalog test to the return
recommend(u, pl, llm) ==
    IF Falsy(pl)
    THEN [raised |-> FALSE, ret |-> NoPlansMsg, log |-> <<Ev("check", pl, FALSE, "empty")>>]
    ELSE replied(groq_call(llm), pl, llm)

\* get_recommendation's result from the two steps' results
returned(a, r) ==
    [raised |-> r.raised, exc |-> IF r.raised THEN "GroqError" ELSE "",
     ret |-> IF r.raised THEN "" ELSE r.ret, plans |-> a.plans,
     file |-> a.file, scrapes |-> a.scrapes, log |-> a.log \o r.log]

\* get_recommendation once the load-or-scrape step has ended as a
after_populate(a, u, llm) ==
    IF a.raised
    THEN [raised |-> TRUE, exc |-> a.exc, ret |-> "", plans |-> a.plans, file |-> a.file,
          scrapes |-> a.scrapes, log |-> a.log]
    ELSE returned(a, recommend(u, a.plans, llm))

get_recommendation(u, f, pl, inLoop, pg, out, llm) ==
    after_populate(load_or_scrape(f, pl, inLoop, pg, out), u, llm)

\* [:3] of the features in the prompt
PromptFeatures == 3

NoFeaturesListed ==
    <<"N", "o", " ", "f", "e", "a", "t", "u", "r", "e", "s", " ", "l", "i", "s", "t", "e",
      "d">>

\* features_text without the [:3]
features_text_Untruncated(plan) ==
    IF plan.features # <<>> THEN join(<<",", " ">>, plan.features) ELSE NoFeaturesListed

\* features_text of one plan: the first three features, joined
features_text(plan) ==
    IF plan.features # <<>>
    THEN join(<<",", " ">>,
              SubSeq(plan.features, 1,
                     IF Len(plan.features) < PromptFeatures THEN Len(plan.features)
                     ELSE PromptFeatures))
    ELSE NoFeaturesListed

\* what one turn of the loop adds to plans_text
plan_text(plan) ==
    <<"\n">> \o plan.name \o <<":", " ", "$">> \o NumText(plan.price)
    \o <<"/", "m", "o", "n", "t", "h", "\n", "F", "e", "a", "t", "u", "r", "e", "s", ":", " ">>
    \o features_text(plan) \o <<"\n">>

\* plans_text after the loop over self.plans
RECURSIVE plans_text(_)
plans_text(pl) ==
    IF pl = <<>> THEN <<>> ELSE plan_text(Head(pl)) \o plans_text(Tail(pl))

\* the three fixed parts of the prompt's f-string
PromptHead ==
    <<"\n", " ", " ", " ", " ", " ", " ", " ", " ", "U", "s", "e", "r", " ", "s", "a", "i",
      "d", ":", " ", "\"">>

PromptMid ==
    <<"\"", "\n", " ", " ", " ", " ", " ", " ", " ", " ", "\n", " ", " ", " ", " ", " ",
      " ", " ", " ", "A", "v", "a", "i", "l", "a", "b", "l", "e", " ", "V", "e", "r", "i",
      "z", "o", "n", " ", "p", "l", "a", "n", "s", ":", "\n", " ", " ", " ", " ", " ", " ",
      " ", " ">>

PromptTail ==
    <<"\n", " ", " ", " ", " ", " ", " ", " ", " ", "\n", " ", " ", " ", " ", " ", " ",
      " ", " ", "B", "a", "s", "e", "d", " ", "o", "n", " ", "t", "h", "e", " ", "u", "s",
      "e", "r", "'", "s", " ", "n", "e", "e", "d", "s", ",", " ", "r", "e", "c", "o", "m",
      "m", "e", "n", "d", " ", "t", "h", "e", " ", "B", "E", "S", "T", " ", "p", "l", "a",
      "n", " ", "a", "n", "d", " ", "e", "x", "p", "l", "a", "i", "n", " ", "w", "h", "y",
      " ", "i", "n", " ", "2", "-", "3", " ", "s", "e", "n", "t", "e", "n", "c", "e", "s",
      ".", "\n", " ", " ", " ", " ", " ", " ", " ", " ", "B", "e", " ", "c", "o", "n", "v",
      "e", "r", "s", "a", "t", "i", "o", "n", "a", "l", " ", "a", "n", "d", " ", "h", "e",
      "l", "p", "f", "u", "l", ".", "\n", " ", " ", " ", " ", " ", " ", " ", " ">>

\* the prompt get_recommendation sends for the input u and the catalog pl
build_prompt(u, pl) == PromptHead \o u \o PromptMid \o plans_text(pl) \o PromptTail

\* ---------------------------------------------------------------- Executor
PromptForInput == "Please provide your phone plan needs (e.g., 'I need unlimited data for streaming')"

\* `not user_input or not user_input.strip()`
Blank(u) == u = <<>> \/ strip(u) = <<>>

\* ensured with `self._plans_loaded = True` in a finally
ensured_FlagInFinally(sc, pg) ==
    [raised |-> sc.raised, loaded |-> TRUE, plans |-> sc.plans, scrapes |-> 1,
     log |-> <<Ev("scrape", sc.result, ~sc.raised, pg.stage)>>]

\* _ensure_plans_loaded once scrape_plans has ended as sc
ensured(sc, pg) ==
    [raised |-> sc.raised, loaded |-> ~sc.raised, plans |-> sc.plans, scrapes |-> 1,
     log |-> <<Ev("scrape", sc.result, ~sc.raised, pg.stage)>>]

\* _ensure_plans_loaded: the flag and self.plans afterwards
_ensure_plans_loaded(loaded, pg, pl) ==
    IF loaded
    THEN [raised |-> FALSE, loaded |-> TRUE, plans |-> pl, scrapes |-> 0, log |-> <<>>]
    ELSE ensured(scrape_plans(pg, pl), pg)

\* Executed with an except branch that prints the error and enqueues nothing
Executed_ErrorOnlyPrinted(en, pl, f, msg, grCalls, grRaised, scrapes, lg) ==
    [raised |-> FALSE, loaded |-> en.loaded, plans |-> pl, file |-> f, msg |-> msg,
     sent |-> IF msg.kind = "error" THEN 0 ELSE 1,
     grCalls |-> grCalls, grRaised |-> grRaised, scrapes |-> scrapes,
     log |-> IF msg.kind = "error" THEN lg
             ELSE Append(lg, Ev("enqueue", pl, TRUE, msg.kind))]

\* what execute leaves behind: msg is the text message enqueued, sent the
\* number of enqueue_event calls, grCalls the number of get_recommendation
\* calls
Executed(en, pl, f, msg, grCalls, grRaised, scrapes, lg) ==
    [raised |-> FALSE, loaded |-> en.loaded, plans |-> pl, file |-> f, msg |-> msg,
     sent |-> 1, grCalls |-> grCalls, grRaised |-> grRaised, scrapes |-> scrapes,
     log |-> Append(lg, Ev("enqueue", pl, msg.kind # "error", msg.kind))]

\* execute once get_recommendation has ended as gr
after_recommendation(en, gr) ==
    Executed(en, gr.plans, gr.file,
             IF gr.raised
             THEN [kind |-> "error", text |-> gr.exc, count |-> 0]
             ELSE [kind |-> "recommendation", text |-> gr.ret, count |-> Len(gr.plans)],
             1, gr.raised, en.scrapes + gr.scrapes,
             en.log \o <<Ev("get_recommendation", en.plans, ~gr.raised, "call")>> \o gr.log)

\* execute once _ensure_plans_loaded has ended as en
after_ensure(en, u, f, pg, out, llm) ==
    IF en.raised
    THEN Executed(en, en.plans, f, [kind |-> "error", text |-> "PlaywrightError", count |-> 0],
                  0, FALSE, en.scrapes, en.log)
    ELSE IF Blank(u)
    THEN Executed(en, en.plans, f, [kind |-> "prompt", text |-> PromptForInput, count |-> 0],
                  0, FALSE, en.scrapes, en.log)
    ELSE after_recommendation(en, get_recommendation(u, f, en.plans, TRUE, pg, out, llm))

execute(u, f, pl, loaded, pg, out, llm) ==
    after_ensure(_ensure_plans_loaded(loaded, pg, pl), u, f, pg, out, llm)

\* ------------------------------------------------------------------ inputs
UserText == <<"h", "o", "t">>

\* what context.get_user_input() can give the executor
UserInputs == { <<>>, <<" ", "\t">>, UserText }

\* texts an h3 can hold
Headings ==
    { NoRead, Read(<<>>), Read(<<" ", "\n">>),
      Read(<<" ", "5", "G", " ", "\t", "S", "t", "a", "r", "t", "\n">>) }

\* texts the full-price element can hold
PriceTexts ==
    { NoRead, Read(<<" ", "$", "7", "9", ".", "9", "0", "/", "m", "o">>), Read(<<"-", "-">>) }

\* texts the feature titles can hold
FeatureTexts ==
    { NoRead,
      Read(<< <<" ", "5", "G", " ">>, <<"H", "o", "t", " ", "s", "p", "o", "t", "\n">> >>) }

Cards == [h3 : Headings, price : PriceTexts, feat : FeatureTexts]

SeqsUpTo(S, n) == UNION { [1..k -> S] : k \in 0..n }

Page(stage, closeOk, cards) == [stage |-> stage, closeOk |-> closeOk, cards |-> cards]

\* pages on which some call outside the per-field handlers raises
FailingPages ==
    { Page("launch", TRUE, <<>>), Page("new_page", TRUE, <<>>) }
    \cup { Page(st, ok, <<>>) : st \in {"goto", "count"}, ok \in BOOLEAN }

\* every page of at most MaxCards cards
AllPages ==
    FailingPages \cup { Page("none", ok, cs) : ok \in BOOLEAN, cs \in SeqsUpTo(Cards, MaxCards) }

GoodCard ==
    [h3    |-> Read(<<"5", "G", " ", " ", "P", "l", "a", "y">>),
     price |-> Read(<<"$", "8", "0", "/", "m", "o">>),
     feat  |-> Read(<< <<"5", "G">>, <<" ", "H", "o", "t", "s", "p", "o", "t">>,
                       <<"T", "V">>, <<"M", "u", "s", "i", "c">> >>)]

BadCard == [h3 |-> NoRead, price |-> Read(<<"-", "-">>), feat |-> NoRead]

\* the pages of the agent's specification: the launch raises, the
\* navigation raises, no card, two cards, one card and a close that raises
MainPages ==
    { Page("launch", TRUE, <<>>), Page("goto", TRUE, <<>>), Page("none", TRUE, <<>>),
      Page("none", TRUE, <<BadCard, GoodCard>>), Page("none", FALSE, <<GoodCard>>) }

\* a catalog written to the store by an earlier run
StoredCatalog ==
    << [name     |-> <<"O", "l", "d", " ", "\"", "X", "\"">>,
        price    |-> [t |-> "float", neg |-> FALSE, m |-> 705, e |-> 1],
        features |-> << <<"4", "G">> >>] >>

StoreFiles == { Absent, Corrupt, NoPlansKey, Document(<<>>), Document(StoredCatalog) }

\* plans of the store's specification: defaults only; escapes in the name,
\* a price with a fraction, a newline in a feature; a whole float price;
\* an int price written by another tool
StorePlans ==
    { [name |-> UnknownPlan, price |-> IntZero, features |-> <<>>],
      [name     |-> <<"a", "\\", "\"", "b", "\t">>,
       price    |-> [t |-> "float", neg |-> FALSE, m |-> 7999, e |-> 2],
       features |-> << <<"5", "G">>, <<"x", "\n", "y">> >>],
      [name     |-> <<"5", "G">>,
       price    |-> [t |-> "float", neg |-> FALSE, m |-> 65, e |-> 0],
       features |-> << <<"T", "V">> >>],
      [name     |-> <<"\\", "n">>,
       price    |-> [t |-> "int", neg |-> FALSE, m |-> 70, e |-> 0],
       features |-> << <<>> >>] }

StoreCatalogs == SeqsUpTo(StorePlans, MaxPlans)

\* what a caller of get_recommendation can pass: a word, a text with quotes
\* and a newline, a blank, nothing
PromptInputs ==
    { UserText, <<"a", " ", "\"", "b", "\"", "\n", "c">>, <<" ">>, <<>> }

\* the plans of the prompt's specification: the two cards' plans (four
\* features; no feature, no name, no price), the stored plan, a plan with an
\* int price and two features, a plan whose only feature is the empty text
PromptPlans ==
    { card_plan(GoodCard), card_plan(BadCard), StoredCatalog[1],
      [name     |-> <<"5", "G", " ", "S", "t", "a", "r", "t">>,
       price    |-> [t |-> "int", neg |-> FALSE, m |-> 65, e |-> 0],
       features |-> << <<"5", "G">>, <<"H", "o", "t", "s", "p", "o", "t">> >>],
      [name     |-> <<"T", "V">>,
       price    |-> [t |-> "float", neg |-> FALSE, m |-> 4999, e |-> 2],
       features |-> << <<>> >>] }

PromptCatalogs == SeqsUpTo(PromptPlans, MaxPlans)

\* ------------------------------------------------------------------- state
NoMsg == [kind |-> "none", text |-> "", count |-> 0]

\* the summary of a call: who was called with what, how it ended, the
\* steps it took.  filePre, plansPre and prev are kept by the store's and
\* the scraper's own calls only.
NoCall ==
    [op |-> "none", u |-> <<>>, filePre |-> Absent, plansPre |-> <<>>,
     raised |-> FALSE, exc |-> "", ret |-> "", result |-> <<>>,
     browser |-> "none", msg |-> NoMsg, sent |-> 0, log |-> <<>>, prev |-> "none"]

FreshLife == [first |-> "none", scrapes |-> 0]

\* what scrape_plans has done so far for a task that has not called it
NoScrape == [raised |-> FALSE, result |-> <<>>, plans |-> <<>>, browser |-> "none"]

\* a request whose execute has not started.  pc: "idle", "launching" (in
\* scrape_plans, before self.plans is assigned), "closing" (in scrape_plans,
\* from the await of browser.close() on), "done"
IdleTask == [pc |-> "idle", u |-> <<>>, sc |-> NoScrape]

NoTasks == [t \in 1..MaxTasks |-> IdleTask]

\* what the store holds, as get_recommendation's caller sees it
StoreClass(f) ==
    IF f.kind # "object" THEN f.kind
    ELSE IF "plans" \in f.keys /\ f.plans # <<>> THEN "non-empty" ELSE "zero plans"

Init ==
    /\ plans = <<>>
    /\ page \in MainPages
    /\ file \in StoreFiles
    /\ _plans_loaded = FALSE
    /\ queue = 0
    /\ life = FreshLife
    /\ tasks = NoTasks
    /\ last = NoCall

\* ----------------------------------------------------------------- actions
\* The outcomes of the save and of the text-generation call are drawn only
\* in the states where the call is made; elsewhere one value stands for all.
Saves(a) == IF a.scrapes = 1 /\ ~a.raised THEN SaveOutcomes ELSE {"ok"}

Replies(a) == IF ~a.raised /\ ~Falsy(a.plans) THEN LlmOutcomes ELSE {"ok"}

\* the state after get_recommendation(u) has ended as r
Recommended(r, u) ==
    /\ plans' = r.plans
    /\ file' = r.file
    /\ life' = [life EXCEPT
                   !.first = IF @ = "none" THEN StoreClass(file) ELSE @,
                   !.scrapes = @ + r.scrapes]
    /\ last' = [NoCall EXCEPT
                   !.op = "get_recommendation", !.u = u, !.raised = r.raised,
                   !.exc = r.exc, !.ret = r.ret, !.log = r.log]

\* a standalone caller (the CLI loop) asks for a recommendation
GetRecommendation ==
    /\ life.scrapes < MaxScrapes
    /\ \E out \in Saves(load_or_scrape(file, plans, FALSE, page, "ok")) :
         \E llm \in Replies(load_or_scrape(file, plans, FALSE, page, out)) :
            Recommended(get_recommendation(UserText, file, plans, FALSE, page, out, llm),
                        UserText)
    /\ UNCHANGED <<page, _plans_loaded, queue, tasks>>

\* the state after execute has ended as r on the input u
Responded(r, u) ==
    /\ plans' = r.plans
    /\ file' = r.file
    /\ _plans_loaded' = r.loaded
    /\ queue' = queue + r.sent
    /\ last' = [NoCall EXCEPT
                   !.op = "execute", !.u = u, !.raised = r.raised,
                   !.exc = IF r.grRaised THEN r.msg.text ELSE "",
                   !.ret = IF r.grCalls = 1 /\ ~r.grRaised THEN r.msg.text ELSE "",
                   !.msg = r.msg, !.sent = r.sent, !.log = r.log]

\* the request handler runs the executor on a request
Execute ==
    /\ queue < MaxQueue
    /\ \E u \in UserInputs :
         \E llm \in Replies(execute(u, file, plans, _plans_loaded, page, "ok", "ok")) :
            Responded(execute(u, file, plans, _plans_loaded, page, "ok", llm), u)
    /\ UNCHANGED <<page, life, tasks>>

\* the request handler takes an event off the queue
Dequeue ==
    /\ queue > 0
    /\ queue' = queue - 1
    /\ UNCHANGED <<plans, page, file, _plans_loaded, life, tasks, last>>

\* something else rewrites or removes the store file
EnvStore ==
    /\ \E f \in StoreFiles : f # file /\ file' = f
    /\ last' = [NoCall EXCEPT !.op = "env"]
    /\ UNCHANGED <<plans, page, _plans_loaded, queue, life, tasks>>

\* the provider's page or the browser's behaviour changes
EnvPage ==
    /\ \E pg \in MainPages : pg # page /\ page' = pg
    /\ UNCHANGED <<plans, file, _plans_loaded, queue, life, tasks, last>>

\* the agent under a standalone caller
Next == GetRecommendation \/ EnvStore \/ EnvPage

Spec == Init /\ [][Next]_vars

\* the agent under the a2a executor
NextExec == Execute \/ Dequeue \/ EnvStore \/ EnvPage

SpecExec == Init /\ [][NextExec]_vars

\* ------------------------------------------------- the scraper on its own
InitScrape ==
    /\ plans \in { <<>>, StoredCatalog }
    /\ page \in AllPages
    /\ file = Absent
    /\ _plans_loaded = FALSE
    /\ queue = 0
    /\ life = FreshLife
    /\ tasks = NoTasks
    /\ last = NoCall

\* a caller (the CLI's main) awaits scrape_plans
ScrapePlans ==
    /\ LET r == scrape_plans(page, plans)
       IN  /\ plans' = r.plans
           /\ last' = [NoCall EXCEPT
                          !.op = "scrape_plans", !.plansPre = plans, !.raised = r.raised,
                          !.result = r.result, !.browser = r.browser]
    /\ UNCHANGED <<page, file, _plans_loaded, queue, life, tasks>>

NextScrape == ScrapePlans

SpecScrape == InitScrape /\ [][NextScrape]_vars

\* --------------------------------------------------- the store on its own
InitStore ==
    /\ plans \in StoreCatalogs
    /\ page = Page("none", TRUE, <<>>)
    /\ file \in StoreFiles
    /\ _plans_loaded = FALSE
    /\ queue = 0
    /\ life = FreshLife
    /\ tasks = NoTasks
    /\ last = NoCall

\* a caller (the CLI's main) calls save_plans
SavePlans ==
    /\ \E out \in SaveOutcomes :
         LET r == save_plans(plans, out, file)
         IN  /\ file' = r.file
             /\ last' = [NoCall EXCEPT
                            !.op = "save_plans", !.plansPre = plans, !.filePre = file,
                            !.raised = r.raised, !.ret = out, !.prev = last.op]
    /\ UNCHANGED <<plans, page, _plans_loaded, queue, life, tasks>>

\* a caller (the CLI's main) calls load_plans
LoadPlans ==
    /\ LET r == load_plans(file, plans)
       IN  /\ plans' = r.plans
           /\ last' = [NoCall EXCEPT
                          !.op = "load_plans", !.plansPre = plans, !.filePre = file,
                          !.raised = r.raised, !.ret = IF r.ret THEN "True" ELSE "False",
                          !.prev = IF last.op = "save_plans" /\ last.ret = "ok"
                                   THEN "save_plans ok" ELSE last.op]
    /\ UNCHANGED <<page, file, _plans_loaded, queue, life, tasks>>

NextStore == SavePlans \/ LoadPlans \/ EnvStore

SpecStore == InitStore /\ [][NextStore]_vars

\* -------------------------------------------------- the prompt on its own
InitPrompt ==
    /\ plans \in PromptCatalogs
    /\ page = Page("none", TRUE, <<>>)
    /\ file = Absent
    /\ _plans_loaded = FALSE
    /\ queue = 0
    /\ life = FreshLife
    /\ tasks = NoTasks
    /\ last = NoCall

\* get_recommendation, past the empty-catalog test, builds its prompt
BuildPrompt ==
    /\ ~Falsy(plans)
    /\ \E u \in PromptInputs :
         last' = [NoCall EXCEPT !.op = "build_prompt", !.u = u, !.plansPre = plans,
                                !.result = build_prompt(u, plans)]
    /\ UNCHANGED <<plans, page, file, _plans_loaded, queue, life, tasks>>

NextPrompt == BuildPrompt

SpecPrompt == InitPrompt /\ [][NextPrompt]_vars

\* ------------------------------------- the executor under concurrent requests
\* The server runs execute as one coroutine per request on one event loop;
\* coroutines change places at an await only.  execute awaits inside
\* scrape_plans and nowhere else: get_recommendation and enqueue_event are
\* plain calls.  Of the awaits of scrape_plans, two separate writes to
\* shared state: the awaits before `self.plans = plans` and the awaits from
\* browser.close() on, which come before `self._plans_loaded = True`.
InitRace ==
    /\ plans = <<>>
    /\ page \in MainPages
    /\ file \in { Absent, Document(StoredCatalog) }
    /\ _plans_loaded = FALSE
    /\ queue = 0
    /\ life = FreshLife
    /\ tasks = NoTasks
    /\ last = NoCall

\* execute up to its first await: with the flag set it runs to its end,
\* else it is suspended in scrape_plans
ExecuteStart(t) ==
    /\ tasks[t].pc = "idle"
    /\ \E u \in UserInputs :
         IF _plans_loaded
         THEN /\ \E llm \in Replies(execute(u, file, plans, TRUE, page, "ok", "ok")) :
                   Responded(execute(u, file, plans, TRUE, page, "ok", llm), u)
              /\ tasks' = [tasks EXCEPT ![t] = [pc |-> "done", u |-> u, sc |-> NoScrape]]
              /\ UNCHANGED life
         ELSE /\ tasks' = [tasks EXCEPT ![t] = [pc |-> "launching", u |-> u, sc |-> NoScrape]]
              /\ life' = [life EXCEPT !.scrapes = @ + 1]
              /\ UNCHANGED <<plans, file, _plans_loaded, queue, last>>
    /\ UNCHANGED page

\* scrape_plans up to the await of browser.close(): self.plans is assigned
\* when the loop has ended
ScrapeStep(t) ==
    /\ tasks[t].pc = "launching"
    /\ plans' = scrape_plans(page, plans).plans
    /\ tasks' = [tasks EXCEPT ![t].pc = "closing", ![t].sc = scrape_plans(page, plans)]
    /\ UNCHANGED <<page, file, _plans_loaded, queue, life, last>>

\* what _ensure_plans_loaded leaves when scrape_plans has ended as sc while
\* the flag is loaded and the catalog is pl
resumed(sc, loaded, pl, pg) ==
    [ensured([sc EXCEPT !.plans = pl], pg) EXCEPT !.loaded = loaded \/ ~sc.raised]

\* execute from the end of scrape_plans to its own end
ScrapeReturn(t) ==
    /\ tasks[t].pc = "closing"
    /\ \E llm \in Replies(after_ensure(resumed(tasks[t].sc, _plans_loaded, plans, page),
                                       tasks[t].u, file, page, "ok", "ok")) :
         Responded(after_ensure(resumed(tasks[t].sc, _plans_loaded, plans, page),
                                tasks[t].u, file, page, "ok", llm), tasks[t].u)
    /\ tasks' = [tasks EXCEPT ![t].pc = "done"]
    /\ UNCHANGED <<page, life>>

NextRace ==
    \E t \in 1..MaxTasks : ExecuteStart(t) \/ ScrapeStep(t) \/ ScrapeReturn(t)

SpecRace == InitRace /\ [][NextRace]_vars
\* ------------------------------------------------------------- properties
Log == last.log

HasEv(e) == \E i \in DOMAIN Log : Log[i].e = e

\* the last call ran get_recommendation (directly, or inside execute)
RanGetRecommendation ==
    \/ last.op = "get_recommendation"
    \/ last.op = "execute" /\ HasEv("get_recommendation")

\* C1: an agent whose store is absent, corrupt or holds zero plans at its
\* first request has, over its get_recommendation calls, invoked the
\* scraper exactly once.
C1_ScrapedExactlyOnce ==
    life.first \in {"absent", "corrupt", "zero plans"} => life.scrapes = 1

\* C2: a recommendation request that finds a well-formed store with a
\* non-empty plans array adopts the stored catalog and starts no scrape.
C2_StoredCatalogNoScrape ==
    RanGetRecommendation =>
        \A i \in DOMAIN Log :
            (Log[i].e = "load" /\ Log[i].ok /\ Log[i].cat # <<>>)
                => (~HasEv("scrape") /\ plans = Log[i].cat)

\* C3: every scrape that returns during a request leaves its result as the
\* in-memory catalog, and a save of that result comes before the catalog is
\* tested or sent to the text-generation service; when that save succeeds
\* the stored plans equal the in-memory catalog.
C3_ScrapeThenSave ==
    \A i \in DOMAIN Log :
        (Log[i].e = "scrape" /\ Log[i].ok) =>
            /\ plans = Log[i].cat
            /\ \A k \in DOMAIN Log :
                 (k > i /\ Log[k].e \in {"check", "llm"}) =>
                     \E j \in (i + 1)..(k - 1) :
                         Log[j].e = "save" /\ Log[j].cat = Log[i].cat
            /\ \A j \in DOMAIN Log :
                 (j > i /\ Log[j].e = "save" /\ Log[j].ok) =>
                     load_plans(file, <<>>) = [raised |-> FALSE, ret |-> TRUE, plans |-> plans]

\* C4: when the catalog is empty after the load-or-scrape step,
\* get_recommendation returns the "No plans available" message and the
\* text-generation service is not called.
C4_EmptyCatalogNoLlm ==
    \A i \in DOMAIN Log :
        (Log[i].e = "check" /\ Log[i].cat = <<>>)
            => (last.ret = NoPlansMsg /\ last.exc = "" /\ ~HasEv("llm"))

C4_Witness ==
    /\ last.op = "get_recommendation"
    /\ \E i \in DOMAIN Log : Log[i].e = "check" /\ Log[i].cat = <<>>
    /\ HasEv("scrape")
    /\ last.ret = NoPlansMsg

\* C5: with a non-empty catalog, a text-generation call that raises or
\* returns no choices makes get_recommendation return the apology string
\* and nothing is raised to the caller.
C5_LlmFailureApology ==
    \A i \in DOMAIN Log :
        (Log[i].e = "llm" /\ ~Log[i].ok)
            => (Log[i].cat # <<>> /\ last.ret = ApologyMsg /\ last.exc = "")

C5_Witness ==
    /\ last.op = "get_recommendation"
    /\ \E i \in DOMAIN Log : Log[i].e = "llm" /\ Log[i].how = "empty_choices"
    /\ last.ret = ApologyMsg

\* C6: get_recommendation never raises: every call, standalone or from the
\* executor, returns one of its strings.
C6_NeverRaises ==
    RanGetRecommendation =>
        (last.exc = "" /\ last.ret \in {NoPlansMsg, ApologyMsg, Generated})

\* C7: a load_plans that follows a successful save_plans returns the saved
\* catalog: the same plans in the same order with equal name, price and
\* features.
C7_SaveLoadRoundTrip ==
    (last.op = "load_plans" /\ last.prev = "save_plans ok")
        => /\ last.ret = "True"
           /\ Len(plans) = Len(last.plansPre)
           /\ \A i \in 1..Len(plans) :
                /\ plans[i].name = last.plansPre[i].name
                /\ plans[i].price = last.plansPre[i].price
                /\ plans[i].features = last.plansPre[i].features

C7_Witness ==
    /\ last.op = "load_plans"
    /\ last.prev = "save_plans ok"
    /\ Len(plans) = 2
    /\ plans[1].price.e = 2
    /\ plans[2].price = [t |-> "float", neg |-> FALSE, m |-> 65, e |-> 0]
    /\ plans = last.plansPre

\* C8: load_plans never raises; on a file that holds a JSON object it
\* returns True with the object's plans as the catalog (the empty sequence
\* when the object has no plans key), and on a missing or unparsable file
\* it returns False.
C8_LoadOutcomes ==
    last.op = "load_plans" =>
        /\ ~last.raised
        /\ last.filePre.kind = "object" =>
             /\ last.ret = "True"
             /\ "plans" \in last.filePre.keys =>
                  /\ Len(plans) = Len(last.filePre.plans)
                  /\ \A i \in 1..Len(plans) :
                       /\ json_string(plans[i].name) = last.filePre.plans[i].name
                       /\ json_number(plans[i].price) = last.filePre.plans[i].price
                       /\ Len(plans[i].features) = Len(last.filePre.plans[i].features)
             /\ "plans" \notin last.filePre.keys => plans = <<>>
        /\ last.filePre.kind \in {"absent", "corrupt"} => last.ret = "False"

C8_Witness ==
    /\ last.op = "load_plans"
    /\ last.filePre = NoPlansKey
    /\ last.plansPre # <<>>
    /\ last.ret = "True"
    /\ plans = <<>>

\* C9: scrape_plans fails closed: when any stage fails (launch, new page,
\* navigation, card count, close) it returns the empty catalog and does not
\* raise.
C9_FailsClosed ==
    (last.op = "scrape_plans" /\ (page.stage # "none" \/ ~page.closeOk))
        => (~last.raised /\ last.result = <<>>)

\* what one read gives when the card's other two reads are fine
Alone(card, field) ==
    card_plan([h3    |-> IF field = "name" THEN card.h3 ELSE GoodCard.h3,
               price |-> IF field = "price" THEN card.price ELSE GoodCard.price,
               feat  |-> IF field = "features" THEN card.feat ELSE GoodCard.feat])

\* C10: a scrape that returns yields one plan per card in card order; a
\* read that fails gives its own field the default ("Unknown Plan", 0, [])
\* and every field has the value it has when all other reads succeed.
C10_FieldFailureIsolated ==
    (last.op = "scrape_plans" /\ page.stage = "none" /\ page.closeOk) =>
        /\ Len(last.result) = Len(page.cards)
        /\ \A i \in 1..Len(page.cards) :
             LET c == page.cards[i]
                 p == last.result[i]
             IN  /\ ~c.h3.ok => p.name = UnknownPlan
                 /\ ~c.price.ok => p.price = IntZero
                 /\ c.price = Read(<<"-", "-">>) => p.price = IntZero
                 /\ ~c.feat.ok => p.features = <<>>
                 /\ p.name = Alone(c, "name").name
                 /\ p.price = Alone(c, "price").price
                 /\ p.features = Alone(c, "features").features

C10_Witness ==
    /\ last.op = "scrape_plans"
    /\ page.stage = "none" /\ page.closeOk
    /\ Len(page.cards) = 2
    /\ ~page.cards[1].price.ok /\ page.cards[1].h3.ok /\ page.cards[1].feat.ok
    /\ last.result[1].price = IntZero
    /\ last.result[1].name = <<"5", "G", " ", "S", "t", "a", "r", "t">>
    /\ Len(last.result[1].features) = 2
    /\ last.result[2].price = [t |-> "float", neg |-> FALSE, m |-> 799, e |-> 1]

C12_PopulatedOnce ==
    [][(life.first # "none" /\ plans # <<>> /\ GetRecommendation)
          => (plans' = plans /\ \A i \in DOMAIN last'.log : last'.log[i].e # "load")]_vars

\* sub occurs in s at position k
At(sub, s, k) == k + Len(sub) - 1 <= Len(s) /\ SubSeq(s, k, k + Len(sub) - 1) = sub

\* the positions from k on at which sub occurs in s
Places(sub, s, k) == { i \in k..(Len(s) - Len(sub) + 1) : At(sub, s, i) }

\* the first position from k on at which sub occurs in s, or 0
FindFrom(sub, s, k) ==
    IF Places(sub, s, k) = {} THEN 0
    ELSE CHOOSE i \in Places(sub, s, k) : \A j \in Places(sub, s, k) : i <= j

\* the number of places from k on at which sub occurs in s
RECURSIVE Occurrences(_, _, _)
Occurrences(sub, s, k) ==
    IF FindFrom(sub, s, k) = 0 THEN 0
    ELSE 1 + Occurrences(sub, s, FindFrom(sub, s, k) + Len(sub))

\* the texts of items occur in s from k on, one after the other
RECURSIVE InOrder(_, _, _)
InOrder(items, s, k) ==
    IF items = <<>> THEN TRUE
    ELSE /\ FindFrom(Head(items), s, k) # 0
         /\ InOrder(Tail(items), s, FindFrom(Head(items), s, k) + Len(Head(items)))

\* what the prompt is to show of one plan: the name, the price, and the
\* line of its first three features
Shown(plan) ==
    << plan.name,
       <<"$">> \o NumText(plan.price) \o <<"/", "m", "o", "n", "t", "h">>,
       (CASE Len(plan.features) = 0 -> NoFeaturesListed
          [] Len(plan.features) = 1 -> plan.features[1]
          [] Len(plan.features) = 2 ->
                plan.features[1] \o <<",", " ">> \o plan.features[2]
          [] OTHER ->
                plan.features[1] \o <<",", " ">> \o plan.features[2]
                \o <<",", " ">> \o plan.features[3]) \o <<"\n">> >>

RECURSIVE ShownAll(_)
ShownAll(pl) == IF pl = <<>> THEN <<>> ELSE Shown(Head(pl)) \o ShownAll(Tail(pl))

\* C13: the prompt built from (user text, catalog) contains the user text
\* verbatim between quotes and then, for every plan in catalog order, the
\* name, "$<price>/month" and the line of the first three features joined
\* by ", " ("No features listed" for a plan without features); there is one
\* "/month" per plan, so no plan is omitted, repeated or reordered.
C13_PromptContents ==
    last.op = "build_prompt" =>
        /\ FindFrom(<<"\"">> \o last.u \o <<"\"">>, last.result, 1) # 0
        /\ InOrder(ShownAll(plans), last.result,
                   FindFrom(<<"\"">> \o last.u \o <<"\"">>, last.result, 1) + Len(last.u) + 2)
        /\ Occurrences(<<"/", "m", "o", "n", "t", "h">>, last.result, 1) = Len(plans)

C13_Witness ==
    /\ last.op = "build_prompt"
    /\ plans = <<card_plan(BadCard), card_plan(GoodCard)>>
    /\ last.u = <<"a", " ", "\"", "b", "\"", "\n", "c">>
    /\ FindFrom(NoFeaturesListed, last.result, 1) # 0
    /\ FindFrom(<<"5", "G", ",", " ", "H", "o", "t", "s", "p", "o", "t", ",", " ", "T", "V", "\n">>,
                last.result, 1) > FindFrom(NoFeaturesListed, last.result, 1)
    /\ FindFrom(<<"$", "8", "0", ".", "0", "/", "m", "o", "n", "t", "h">>, last.result, 1) # 0
    /\ FindFrom(<<"M", "u", "s", "i", "c">>, last.result, 1) = 0

\* C14: under any interleaving of the requests of one executor process, two
\* requests that arrive before the first population has completed
\* included, at most one scrape is started in the process lifetime.
C14_AtMostOneScrape == life.scrapes <= 1

\* C15: the in-memory catalog is never partially updated: it is empty, or
\* the catalog it was before the scrape (a store's plans, whole), or one
\* plan per card of the scraped page; a scrape that fails before its loop
\* has ended (launch, new page, navigation, card count) leaves the catalog
\* as it was, and a scrape whose loop has ended leaves one plan per card.
C15_NeverPartial ==
    /\ \/ plans = <<>>
       \/ plans = StoredCatalog
       \/ /\ Len(plans) = Len(page.cards)
          /\ \A i \in 1..Len(plans) : plans[i] = card_plan(page.cards[i])
    /\ (last.op = "scrape_plans" /\ page.stage # "none") => plans = last.plansPre
    /\ (last.op = "scrape_plans" /\ page.stage = "none") =>
          /\ Len(plans) = Len(page.cards)
          /\ \A i \in 1..Len(plans) : plans[i] = card_plan(page.cards[i])

C15_Witness ==
    /\ last.op = "scrape_plans"
    /\ page.stage = "count"
    /\ last.plansPre = StoredCatalog
    /\ plans = StoredCatalog
    /\ last.result = <<>>

\* C16: every plan scrape_plans returns has a non-empty name (the
\* whitespace-normalised heading, "Unknown Plan" when the heading is missing
\* or empty), a non-negative price (0 when parsing fails) and a sequence of
\* features.
C16_ValidPlans ==
    last.op = "scrape_plans" =>
        \A i \in 1..Len(last.result) :
            /\ last.result[i].name # <<>>
            /\ (~page.cards[i].h3.ok \/ strip(page.cards[i].h3.v) = <<>>)
                  => last.result[i].name = UnknownPlan
            /\ ~last.result[i].price.neg
            /\ ~page.cards[i].price.ok => last.result[i].price = IntZero
            /\ DOMAIN last.result[i].features = 1..Len(last.result[i].features)

\* C17: an execute whose user input is blank or whitespace-only enqueues
\* the prompt-for-input message, does not call get_recommendation and makes
\* no text-generation call.
C17_BlankInputPrompted ==
    (last.op = "execute" /\ Blank(last.u)) =>
        /\ last.msg = [kind |-> "prompt", text |-> PromptForInput, count |-> 0]
        /\ ~HasEv("get_recommendation")
        /\ ~HasEv("llm")

\* C18: a save_plans that cannot open or write the store is swallowed:
\* get_recommendation does not raise, the in-memory catalog stays the
\* catalog that was to be saved, and the call goes on to the empty-catalog
\* test and, with a non-empty catalog, to the text-generation call on that
\* catalog, returning one of its strings.
C18_SaveFailureSwallowed ==
    \A i \in DOMAIN Log :
        (Log[i].e = "save" /\ ~Log[i].ok) =>
            /\ ~last.raised /\ last.exc = ""
            /\ plans = Log[i].cat
            /\ i < Len(Log) /\ Log[i + 1].e = "check" /\ Log[i + 1].cat = Log[i].cat
            /\ Log[i].cat # <<>> =>
                  (Len(Log) = i + 2 /\ Log[i + 2].e = "llm" /\ Log[i + 2].cat = Log[i].cat)
            /\ last.ret \in {NoPlansMsg, ApologyMsg, Generated}
            /\ Log[i].cat = <<>> <=> last.ret = NoPlansMsg

C18_Witness ==
    /\ last.op = "get_recommendation"
    /\ \E i \in DOMAIN Log : Log[i].e = "save" /\ Log[i].how = "write_fails"
    /\ HasEv("llm")
    /\ last.ret = Generated
    /\ Len(plans) = 2
    /\ file = Corrupt

\* the number of entries of the log that are the step e
Steps(e) == Cardinality({ i \in DOMAIN Log : Log[i].e = e })

\* C19: every execute enqueues exactly one text message, as its last step,
\* on every path (blank input, recommendation produced, an exception raised
\* while loading plans or recommending), and does not raise to the request
\* handler.
C19_OneMessagePerExecute ==
    last.op = "execute" =>
        /\ ~last.raised
        /\ last.sent = 1
        /\ Steps("enqueue") = 1
        /\ Log[Len(Log)].e = "enqueue"
        /\ last.msg.kind \in {"prompt", "recommendation", "error"}
        /\ Log[Len(Log)].how = last.msg.kind

C19_Witness ==
    /\ last.op = "execute"
    /\ HasEv("asyncio.run")
    /\ last.msg.kind = "error"
    /\ last.msg.text = "RuntimeError"
    /\ last.sent = 1
    /\ queue = 2

\* C20: the executor's _plans_loaded flag changes only in an execute; an
\* execute that finds it false starts by calling scrape_plans and leaves the
\* flag true exactly when that call returned without raising (an empty
\* result included), so a scrape that raised is attempted again by the next
\* request; an execute that finds it true leaves it true and its
\* _ensure_plans_loaded starts no scrape.
C20_FlagFollowsScrape ==
    [][IF Execute
       THEN /\ ~_plans_loaded =>
                 /\ last'.log[1].e = "scrape"
                 /\ _plans_loaded' = last'.log[1].ok
            /\ _plans_loaded =>
                 /\ _plans_loaded'
                 /\ \A i \in DOMAIN last'.log : last'.log[i].e # "scrape"
       ELSE _plans_loaded' = _plans_loaded]_vars

C20_Witness ==
    /\ _plans_loaded
    /\ last.op = "execute"
    /\ Log[1] = Ev("scrape", <<>>, TRUE, "none")
    /\ plans = <<>>
====
